---- MODULE Spec2Model ----
(***************************************************************************)
(* Process supervision and output pipeline of ffmpeg_exporter.             *)
(*                                                                         *)
(* Two supervisors share one shape:                                        *)
(*   FFprobeMonitor (src/src/stream/monitor.rs)  -- mode "probe"           *)
(*   FFmpegMonitor  (src/src/stream/stream.rs)   -- mode "transcode"       *)
(* run() loops: set connected gauge, run one session (spawn the child,     *)
(* start the stream worker threads, poll), then handle the result and      *)
(* wait RETRY_DELAY in 100 increments.  The threads of the program are     *)
(* the supervisor thread, two stream workers per session (plus an uptime   *)
(* worker per session in transcode mode), the child processes and the      *)
(* interrupt handler; every atomic load/store, channel operation and       *)
(* process operation is one step.  The threads are detached and never      *)
(* joined: the stream workers of a session that has been handled are kept  *)
(* as counts per position: their channel has no receiver any more, so a    *)
(* send of theirs is a no-op and all that is left of them is the store to  *)
(* the stop flag they may still perform.  In the same way the subprocess   *)
(* of a handled session is only counted if it is still alive.              *)
(***************************************************************************)
EXTENDS Integers, Sequences, FiniteSets, TLC

\* ---------------------------------------------------------------- bounds
\* Number of sessions (iterations of the while loop of run) explored.
MaxAttempts == 2

\* Frame records with a pts read by one stdout worker.
MaxFrames == 101
\* Frame records of the other stream.
MaxOther == 1
\* Frame records whose pts field is no number.
MaxBadFrames == 1
\* Milliseconds between two frames of the source.
FrameInterval == 500
\* Packet records with the corrupt flag, per label.
MaxCorrupt == 2
\* Runs of classification and argument building on one locator.
MaxRuns == 2
\* Frame records with a pts read by the stdout workers of all sessions
\* where the supervisor runs beside them.
MaxRespawnFrames == 6

\* ------------------------------------------------------ program constants
\* `for _ in 0..100` : polling increments of RETRY_DELAY.
RETRY_POLLS == 100

Modes == {"probe", "transcode"}
Workers == {"stdout", "stderr"}
Sessions == 1..MaxAttempts

\* Exit statuses a child can end with by itself: success, a failure code,
\* or death by a signal (status.code() is None).
ExitStates == {"exited0", "exited1", "signaled"}

\* ------------------------------------------------------------- locators
\* A locator is a text.  What from_input looks at: the scheme Url::parse
\* finds ("none" when the text is no URL), the extension the path ends in,
\* and what follows the path (a query); a text that is no URL has no query.
Schemes == {"srt", "rtmp", "rtsp", "udp", "http", "https", "ftp", "none"}
Suffixes == {".m3u8", ".m3u", ".ts", ".mp4", ""}
Queries == {<<>>, <<"?k=v">>, <<"?f=a", ".ts">>}
Locators ==
    {l \in [scheme : Schemes, suffix : Suffixes, query : Queries] :
        l.scheme = "none" => l.query = <<>>}

\* The text of a locator as a sequence of tokens: "srt://x/y.ts?k=v" is
\* <<"srt", "://x/y", ".ts", "?k=v">> and the file name "y.ts" is
\* <<"y", ".ts">>.
Text(l) ==
    (IF l.scheme = "none" THEN <<"y">> ELSE <<l.scheme, "://x/y">>)
        \o (IF l.suffix = "" THEN <<>> ELSE <<l.suffix>>)
        \o l.query

\* str::ends_with
EndsWith(text, suffix) == text[Len(text)] = suffix

\* path.extension().and_then(|ext| ext.to_str())
Extension(l) ==
    CASE l.suffix = ".m3u8" -> "m3u8"
      [] l.suffix = ".m3u" -> "m3u"
      [] l.suffix = ".ts" -> "ts"
      [] l.suffix = ".mp4" -> "mp4"
      [] OTHER -> "none"

\* from_input that looks for the file before it parses the URL.
from_input_PathFirst(l, exists) ==
    IF exists
      THEN CASE Extension(l) = "ts" -> "mpegts"
             [] Extension(l) \in {"m3u8", "m3u"} -> "hls"
             [] Extension(l) = "none" -> "error"
             [] OTHER -> "file"
      ELSE IF l.scheme \in {"srt", "rtmp", "rtsp", "udp"} THEN l.scheme
      ELSE "error"

\* StreamType::from_input: the stream type, or "error" for anyhow::bail!.
\* `exists` is what path.exists() answers at the time of the call.
from_input(l, exists) ==
    IF l.scheme # "none"
      THEN CASE l.scheme = "srt" -> "srt"
             [] l.scheme = "rtmp" -> "rtmp"
             [] l.scheme = "rtsp" -> "rtsp"
             [] l.scheme = "udp" -> "udp"
             [] l.scheme \in {"http", "https"} ->
                  IF EndsWith(Text(l), ".m3u8") \/ EndsWith(Text(l), ".m3u")
                    THEN "hls"
                  ELSE IF EndsWith(Text(l), ".ts") THEN "mpegts"
                  ELSE "hls"
             [] OTHER -> "error"
      ELSE IF exists
             THEN CASE Extension(l) = "ts" -> "mpegts"
                    [] Extension(l) \in {"m3u8", "m3u"} -> "hls"
                    [] Extension(l) = "none" -> "error"
                    [] OTHER -> "file"
             ELSE "error"

\* The locator of the runs in which the supervisor is followed.
DefaultInput == [scheme |-> "srt", suffix |-> "", query |-> <<>>]

\* Locators tried at startup, each with the answer of path.exists(): three
\* that classify, three that do not (unsupported scheme, no such file, a
\* file without extension).
StartupLocators ==
    {<<DefaultInput, FALSE>>,
     <<[scheme |-> "https", suffix |-> ".ts", query |-> <<>>], FALSE>>,
     <<[scheme |-> "none", suffix |-> ".mp4", query |-> <<>>], TRUE>>,
     <<[scheme |-> "ftp", suffix |-> ".ts", query |-> <<>>], FALSE>>,
     <<[scheme |-> "none", suffix |-> ".ts", query |-> <<>>], FALSE>>,
     <<[scheme |-> "none", suffix |-> "", query |-> <<>>], TRUE>>}

\* ----------------------------------------------------- ffprobe arguments
\* Values of --probe-size and --analyze-duration.
ProbeSizes == {32, 5000000}
AnalyzeDurations == {0, 5000000}

\* u32::to_string, on the values above.
to_string(n) ==
    CASE n = 0 -> <<"0">>
      [] n = 32 -> <<"32">>
      [] n = 5000000 -> <<"5000000">>

\* get_ffprobe_args without the input argument.
get_ffprobe_args_NoInput(self, probe_size, analyze_duration, report) ==
    <<<<"-show_packets">>, <<"-show_frames">>, <<"-of">>, <<"csv">>,
      <<"-probesize">>, to_string(probe_size),
      <<"-analyzeduration">>, to_string(analyze_duration)>>

\* StreamType::get_ffprobe_args: the vector is built by extending it in
\* the order of the statements.  self is the StreamType value, its type and
\* the text it carries; every argument is a text.
get_ffprobe_args(self, probe_size, analyze_duration, report) ==
    <<<<"-show_packets">>, <<"-show_frames">>, <<"-of">>, <<"csv">>>>
        \o (IF report THEN <<<<"-report">>>> ELSE <<>>)
        \o (CASE self.type = "rtsp" -> <<<<"-rtsp_transport">>, <<"tcp">>>>
              [] self.type = "hls" -> <<<<"-live_start_index">>, <<"-1">>>>
              [] OTHER -> <<>>)
        \o <<<<"-probesize">>, to_string(probe_size),
             <<"-analyzeduration">>, to_string(analyze_duration)>>
        \o <<<<"-i">>, self.url>>

\* ------------------------------------------------------- stdout records
\* Text is a sequence of tokens; "_" and "C" are tokens of their own.
StreamIds == {<<"0">>, <<"1">>}
MediaTypes == {<<"video">>, <<"audio">>}
Labels == StreamIds \X MediaTypes

\* A numeric field and a field that is no number ("N/A").
Num(v) == <<"num", v>>
NotNum == <<"txt", 0>>

\* str::parse::<f64>()
ParseF64(f) == [ok |-> f[1] = "num", val |-> f[2]]

\* format!("{}_{}", stream_id, media_type)
Key(stream_id, media_type) == stream_id \o <<"_">> \o media_type

\* key.split_once('_').unwrap_or(("0", "unknown"))
SplitOnce(key) ==
    IF \E i \in 1..Len(key) : key[i] = "_"
      THEN LET i == CHOOSE j \in 1..Len(key) :
                      /\ key[j] = "_"
                      /\ \A k \in 1..(j - 1) : key[k] # "_"
           IN <<SubSeq(key, 1, i - 1), SubSeq(key, i + 1, Len(key))>>
      ELSE <<<<"0">>, <<"unknown">>>>

\* str::contains(c)
Contains(text, c) == \E i \in 1..Len(text) : text[i] = c

\* A gauge that has not been set.
Unset == [n |-> 0, d |-> 0]

\* `while frame_times.len() > 100`
FRAME_WINDOW == 100

\* The two streams of the frame records that are followed.
MainLabel == <<<<"0">>, <<"video">>>>
OtherLabel == <<<<"1">>, <<"audio">>>>

VARIABLES
    mode,               \* which supervisor is running
    running,            \* Arc<AtomicBool> running (the shared stop flag)
    interrupted,        \* the interrupt handler / external handle has stored false
    pc,                 \* position of the supervisor thread
    attempts,           \* iteration of the while loop of run (current session)
    polls,              \* loop variable of `for _ in 0..100`
    connection_state,   \* connected gauge
    reconnect_attempts, \* connection_reset / reconnect_attempts counter
    last_error,         \* record_error("connection_failed") has been called
    current_uptime,     \* session whose uptime worker wrote the gauge last
    child,              \* state of the subprocess of the current session
    leaked,             \* subprocesses of handled sessions that are still alive
    wpc,                \* per stream worker of the current session: position
    stale_read,         \* workers of handled sessions still in reader.lines()
    stale_store,        \* workers of handled sessions that failed, store pending
    upc,                \* per session: position of the uptime worker
    error_rx,           \* errors sent on the current session's channel, in order
    taken,              \* number of errors try_recv has consumed from it
    result,             \* value returned by the session function
    returned,           \* value run() has returned to its caller
    input,              \* the locator given on the command line
    file_exists,        \* file system: a file named by the locator exists
    built,              \* classifications and argument vectors computed
    now,                \* clock of the stdout worker (ms), moved by the frames
    last_fps_update,    \* process_stdout: Instant of the last FPS update (ms)
    frame_times,        \* process_stdout: Vec<(String, f64)> of (key, pts)
    seen,               \* history: every (key, pts) pushed, in order
    session_seen,       \* history: Len(seen) when process_stdout was entered
    fps,                \* sink: FPS gauge per key, as a fraction
    frame_counter,      \* sink: processed-frame counter per label
    bitrate,            \* sink: bitrate gauge per label
    packet_corrupt      \* sink: corrupt-packet counter per label

vars == <<mode, running, interrupted, pc, attempts, polls, connection_state,
          reconnect_attempts, last_error, current_uptime, child, leaked, wpc,
          stale_read, stale_store, upc, error_rx, taken, result, returned,
          input, file_exists, built, now, last_fps_update, frame_times, seen,
          session_seen, fps, frame_counter, bitrate, packet_corrupt>>

\* Groups used in UNCHANGED clauses.
supVars == <<pc, attempts, polls, result>>
sinkVars == <<connection_state, reconnect_attempts, last_error>>
staleVars == <<leaked, stale_read, stale_store>>
chanVars == <<error_rx, taken>>
buildVars == <<file_exists, built>>
stdoutVars == <<now, last_fps_update, frame_times, seen, session_seen, fps,
                frame_counter, bitrate, packet_corrupt>>

NoResult == [kind |-> "none", who |-> "none", code |-> 0]
OkExit == [kind |-> "ok", who |-> "none", code |-> 0]
OkStop == [kind |-> "stopped", who |-> "none", code |-> 0]
SpawnErr == [kind |-> "spawn", who |-> "none", code |-> 0]
WaitErr == [kind |-> "wait", who |-> "none", code |-> 0]
WorkerErr(w) == [kind |-> "worker", who |-> w, code |-> 0]
ExitErr(c) == [kind |-> "exit", who |-> "none", code |-> c]

\* Result<()> as the caller sees it: Ok(()) carries no cause.
IsOk(r) == r.kind \in {"ok", "stopped"}
IsErr(r) == r.kind \in {"spawn", "wait", "worker", "exit"}

\* status.code().unwrap_or(-1)
ExitCode(st) == IF st = "exited0" THEN 0 ELSE IF st = "exited1" THEN 1 ELSE -1

\* status.success()
Success(st) == st = "exited0"

\* child.kill(): terminates a live child, no effect on one that has exited.
Kill(st) == IF st = "alive" THEN "killed" ELSE st

\* The supervisor is inside the polling loop of the session function, so
\* the receiver of the session's channel exists.
InPipeline == pc \in {"recv", "try_wait", "stop_check"}

\* Number of stream workers of the current session at position p.
At(p) == Cardinality({w \in Workers : wpc[w] = p})

NoWorkers == [w \in Workers |-> "none"]

\* The session function has returned and its result has been matched: the
\* Child handle and the channel are dropped (a process still alive stays
\* alive, nothing reaps or kills it) and the detached workers of the
\* session become workers of a handled session.
EndSession ==
    /\ leaked' = IF child = "alive" THEN leaked + 1 ELSE leaked
    /\ child' = "none"
    /\ stale_read' = stale_read + At("read")
    /\ stale_store' = stale_store + At("send") + At("store")
    /\ wpc' = NoWorkers
    /\ error_rx' = <<>>
    /\ taken' = 0

\* Everything but the position of the main thread and the locator: the
\* monitor is constructed with running = true, the registry is empty, no
\* session exists.
Fresh ==
    /\ mode \in Modes
    /\ running = TRUE
    /\ interrupted = FALSE
    /\ attempts = 0
    /\ polls = 0
    /\ connection_state = 0
    /\ reconnect_attempts = 0
    /\ last_error = FALSE
    /\ current_uptime = 0
    /\ child = "none"
    /\ leaked = 0
    /\ wpc = NoWorkers
    /\ stale_read = 0
    /\ stale_store = 0
    /\ upc = [s \in Sessions |-> "none"]
    /\ error_rx = <<>>
    /\ taken = 0
    /\ result = NoResult
    /\ returned = "none"
    /\ built = <<>>
    /\ now = 0
    /\ last_fps_update = 0
    /\ frame_times = <<>>
    /\ seen = <<>>
    /\ session_seen = 0
    /\ fps = [l \in Labels |-> Unset]
    /\ frame_counter = [l \in Labels |-> 0]
    /\ bitrate = [l \in Labels |-> Unset]
    /\ packet_corrupt = [l \in Labels |-> 0]

\* The state after construction, with a locator that classifies.
Init ==
    /\ Fresh
    /\ pc = "loop"
    /\ input = DefaultInput
    /\ file_exists = FALSE

\* --------------------------------------------------------------- startup

\* Classify that accepts every locator.
Classify_Lenient ==
    /\ pc = "classify"
    /\ pc' = "loop"
    /\ UNCHANGED <<mode, input, buildVars, returned, stdoutVars, running,
                   interrupted, attempts, polls, result, sinkVars,
                   current_uptime, child, wpc, staleVars, upc, chanVars>>

\* StreamType::from_input(&args.input).context(...)? in main, and the same
\* call in FFmpegMonitor::new: on Err the caller returns the error before a
\* monitor exists; on Ok the monitor is constructed and run() is entered.
Classify ==
    /\ pc = "classify"
    /\ pc' = IF from_input(input, file_exists) = "error"
               THEN "failed"
               ELSE "loop"
    /\ UNCHANGED <<mode, input, buildVars, returned, stdoutVars, running,
                   interrupted, attempts, polls, result, sinkVars,
                   current_uptime, child, wpc, staleVars, upc, chanVars>>

\* --------------------------------------- classification and arguments
\* One run of classification and argument building, as main and
\* build_ffprobe_command perform them: from_input on the locator, and on Ok
\* get_ffprobe_args of the StreamType with the parameters of the command
\* line.  The run is recorded with what it was given and what it returned.
BuildArgs(probe_size, analyze_duration, report) ==
    /\ pc = "classify"
    /\ Len(built) < MaxRuns
    /\ LET type == from_input(input, file_exists)
           self == [type |-> type, url |-> Text(input)]
       IN  built' = Append(built,
               [probe_size |-> probe_size,
                analyze_duration |-> analyze_duration,
                report |-> report,
                exists |-> file_exists,
                type |-> type,
                args |-> IF type = "error" THEN <<>>
                         ELSE get_ffprobe_args(self, probe_size,
                                               analyze_duration, report)])
    /\ UNCHANGED <<mode, input, file_exists, returned, stdoutVars, running,
                   interrupted, supVars, sinkVars, current_uptime, child, wpc,
                   staleVars, upc, chanVars>>

\* The environment creates or removes the file the locator names.
FsChange ==
    /\ pc = "classify"
    /\ file_exists' = ~file_exists
    /\ UNCHANGED <<mode, input, built, returned, stdoutVars, running,
                   interrupted, supVars, sinkVars, current_uptime, child, wpc,
                   staleVars, upc, chanVars>>

\* Classification and argument building alone, run up to MaxRuns times on
\* one locator, for every locator and every answer of the file system.
BuildInit ==
    /\ Fresh
    /\ mode = "probe"
    /\ pc = "classify"
    /\ input \in Locators
    /\ file_exists \in BOOLEAN

BuildNext ==
    \/ \E probe_size \in ProbeSizes, analyze_duration \in AnalyzeDurations,
          report \in BOOLEAN :
           BuildArgs(probe_size, analyze_duration, report)
    \/ FsChange

BuildSpec == BuildInit /\ [][BuildNext]_vars

\* ------------------------------------------------------------ supervisor

\* while self.running.load(Ordering::SeqCst) { ... }  Ok(())
RunLoop ==
    /\ pc = "loop"
    /\ IF running
         THEN /\ attempts < MaxAttempts
              /\ attempts' = attempts + 1
              /\ pc' = "connect"
         ELSE /\ pc' = "done"
              /\ UNCHANGED attempts
    /\ returned' = IF running THEN returned ELSE "ok"
    /\ UNCHANGED <<mode, input, buildVars, stdoutVars, running, interrupted,
                   polls, result, sinkVars, current_uptime, child, wpc,
                   staleVars, upc, chanVars>>

\* RunConnect that leaves the gauge as it is.
RunConnect_NoGauge ==
    /\ pc = "connect"
    /\ pc' = "spawn"
    /\ UNCHANGED <<mode, input, buildVars, returned, stdoutVars, running,
                   interrupted, attempts, polls, result, sinkVars,
                   current_uptime, child, wpc, staleVars, upc, chanVars>>

\* RunConnect that re-arms the stop flag at the start of an attempt.
RunConnect_Rearm ==
    /\ pc = "connect"
    /\ connection_state' = 1
    /\ running' = TRUE
    /\ pc' = "spawn"
    /\ UNCHANGED <<mode, input, buildVars, returned, stdoutVars, interrupted,
                   attempts, polls, result, reconnect_attempts, last_error,
                   current_uptime, child, wpc, staleVars, upc, chanVars>>

\* connection_state.set(1.0) at the start of every attempt
RunConnect ==
    /\ pc = "connect"
    /\ connection_state' = 1
    /\ pc' = "spawn"
    /\ UNCHANGED <<mode, input, buildVars, returned, stdoutVars, running,
                   interrupted, attempts, polls, result, reconnect_attempts,
                   last_error, current_uptime, child, wpc, staleVars, upc,
                   chanVars>>

\* SpawnOk whose stdout worker goes on with the frame window and the
\* update time of the worker before it.
SpawnOk_KeepWindow ==
    /\ pc = "spawn"
    /\ child' = "alive"
    /\ wpc' = [w \in Workers |-> "read"]
    /\ upc' = [upc EXCEPT ![attempts] =
                 IF mode = "transcode" THEN "run" ELSE "none"]
    /\ pc' = "recv"
    /\ session_seen' = Len(seen)
    /\ UNCHANGED <<mode, input, buildVars, returned, running, interrupted,
                   attempts, polls, result, sinkVars, current_uptime,
                   staleVars, chanVars, now, seen, fps, frame_counter,
                   bitrate, packet_corrupt, frame_times, last_fps_update>>

\* cmd.spawn() succeeds: the child runs, the channel is created, the two
\* stream workers (and, in transcode mode, the uptime worker) are started.
\* The stdout worker enters process_stdout, whose locals are new:
\* frame_times = Vec::new() and last_fps_update = Instant::now().  The
\* metrics registry is the one of the monitor and keeps what it holds.
SpawnOk ==
    /\ pc = "spawn"
    /\ child' = "alive"
    /\ wpc' = [w \in Workers |-> "read"]
    /\ upc' = [upc EXCEPT ![attempts] =
                 IF mode = "transcode" THEN "run" ELSE "none"]
    /\ pc' = "recv"
    /\ frame_times' = <<>>
    /\ last_fps_update' = now
    /\ session_seen' = Len(seen)
    /\ UNCHANGED <<mode, input, buildVars, returned, running, interrupted,
                   attempts, polls, result, sinkVars, current_uptime,
                   staleVars, chanVars, now, seen, fps, frame_counter,
                   bitrate, packet_corrupt>>

\* SpawnFail that ends run() instead of returning Err to the match.
SpawnFail_Fatal ==
    /\ pc = "spawn"
    /\ result' = SpawnErr
    /\ pc' = "done"
    /\ returned' = "err"
    /\ UNCHANGED <<mode, input, buildVars, stdoutVars, running, interrupted,
                   attempts, polls, sinkVars, current_uptime, child, wpc,
                   staleVars, upc, chanVars>>

\* cmd.spawn().context("Failed to spawn ...")? : the session function
\* returns Err before anything is started.
SpawnFail ==
    /\ pc = "spawn"
    /\ result' = SpawnErr
    /\ pc' = "match"
    /\ UNCHANGED <<mode, input, buildVars, returned, stdoutVars, running,
                   interrupted, attempts, polls, sinkVars, current_uptime,
                   child, wpc, staleVars, upc, chanVars>>

\* match error_rx.try_recv(): Ok(error) kills the child and returns the
\* error; Empty falls through to try_wait.  Disconnected cannot happen: the
\* original error_tx lives until the function returns.
TryRecv ==
    /\ pc = "recv"
    /\ IF taken < Len(error_rx)
         THEN /\ taken' = taken + 1
              /\ child' = Kill(child)
              /\ result' = WorkerErr(error_rx[taken + 1])
              /\ pc' = "match"
         ELSE /\ pc' = "try_wait"
              /\ UNCHANGED <<taken, child, result>>
    /\ UNCHANGED <<mode, input, buildVars, returned, stdoutVars, running,
                   interrupted, attempts, polls, sinkVars, current_uptime,
                   wpc, staleVars, upc, error_rx>>

\* TryWait with the exit status ignored: any exit is a clean one.
TryWait_IgnoreStatus ==
    /\ pc = "try_wait"
    /\ IF child = "alive"
         THEN /\ pc' = "stop_check"
              /\ UNCHANGED result
         ELSE /\ result' = OkExit
              /\ pc' = "match"
    /\ UNCHANGED <<mode, input, buildVars, returned, stdoutVars, running,
                   interrupted, attempts, polls, sinkVars, current_uptime,
                   child, wpc, staleVars, upc, chanVars>>

\* TryWait that looks at the stop flag before the exit status.
TryWait_StopFirst ==
    /\ pc = "try_wait"
    /\ IF ~running
         THEN /\ result' = OkStop
              /\ pc' = "match"
         ELSE IF child = "alive"
         THEN /\ pc' = "stop_check"
              /\ UNCHANGED result
         ELSE /\ result' = IF Success(child)
                             THEN OkExit
                             ELSE ExitErr(ExitCode(child))
              /\ pc' = "match"
    /\ UNCHANGED <<mode, input, buildVars, returned, stdoutVars, running,
                   interrupted, attempts, polls, sinkVars, current_uptime,
                   child, wpc, staleVars, upc, chanVars>>

\* match child.try_wait(): Ok(Some(status)) returns Err with the exit code
\* unless status.success(), else breaks to Ok(()); Ok(None) sleeps 100 ms.
TryWait ==
    /\ pc = "try_wait"
    /\ IF child = "alive"
         THEN /\ pc' = "stop_check"
              /\ UNCHANGED result
         ELSE /\ result' = IF Success(child)
                             THEN OkExit
                             ELSE ExitErr(ExitCode(child))
              /\ pc' = "match"
    /\ UNCHANGED <<mode, input, buildVars, returned, stdoutVars, running,
                   interrupted, attempts, polls, sinkVars, current_uptime,
                   child, wpc, staleVars, upc, chanVars>>

\* match child.try_wait(): Err(e) => return Err(...) -- the operating
\* system refuses the status query; the child is left as it is.
TryWaitErr ==
    /\ pc = "try_wait"
    /\ result' = WaitErr
    /\ pc' = "match"
    /\ UNCHANGED <<mode, input, buildVars, returned, stdoutVars, running,
                   interrupted, attempts, polls, sinkVars, current_uptime,
                   child, wpc, staleVars, upc, chanVars>>

\* if !self.running.load(Ordering::SeqCst) { let _ = child.kill(); break; }
StopCheck ==
    /\ pc = "stop_check"
    /\ IF running
         THEN /\ pc' = "recv"
              /\ UNCHANGED <<child, result>>
         ELSE /\ child' = Kill(child)
              /\ result' = OkStop
              /\ pc' = "match"
    /\ UNCHANGED <<mode, input, buildVars, returned, stdoutVars, running,
                   interrupted, attempts, polls, sinkVars, current_uptime,
                   wpc, staleVars, upc, chanVars>>

\* ProbeMatchOk that restarts at once, without the wait.
ProbeMatchOk_NoWait ==
    /\ pc = "match" /\ mode = "probe" /\ IsOk(result)
    /\ connection_state' = 0
    /\ reconnect_attempts' = reconnect_attempts + 1
    /\ pc' = "loop"
    /\ EndSession
    /\ UNCHANGED <<mode, input, buildVars, returned, stdoutVars, running,
                   interrupted, attempts, polls, result, last_error,
                   current_uptime, upc>>

\* FFprobeMonitor::run, arm Ok(()): gauge 0, counter +1, enter the wait.
ProbeMatchOk ==
    /\ pc = "match" /\ mode = "probe" /\ IsOk(result)
    /\ connection_state' = 0
    /\ reconnect_attempts' = reconnect_attempts + 1
    /\ polls' = 0
    /\ pc' = "backoff"
    /\ EndSession
    /\ UNCHANGED <<mode, input, buildVars, returned, stdoutVars, running,
                   interrupted, attempts, result, last_error, current_uptime,
                   upc>>

\* FFmpegMatchOk that leaves the gauge as it is.
FFmpegMatchOk_StaysConnected ==
    /\ pc = "match" /\ mode = "transcode" /\ IsOk(result)
    /\ pc' = "done"
    /\ EndSession
    /\ returned' = "ok"
    /\ UNCHANGED <<mode, input, buildVars, stdoutVars, running, interrupted,
                   attempts, polls, result, sinkVars, current_uptime, upc>>

\* FFmpegMonitor::run, arm Ok(()): gauge 0, break, Ok(()).
FFmpegMatchOk ==
    /\ pc = "match" /\ mode = "transcode" /\ IsOk(result)
    /\ connection_state' = 0
    /\ pc' = "done"
    /\ EndSession
    /\ returned' = "ok"
    /\ UNCHANGED <<mode, input, buildVars, stdoutVars, running, interrupted,
                   attempts, polls, result, reconnect_attempts, last_error,
                   current_uptime, upc>>

\* MatchErr without the increment of the counter.
MatchErr_NoCount ==
    /\ pc = "match" /\ IsErr(result)
    /\ connection_state' = 0
    /\ last_error' = IF mode = "transcode" THEN TRUE ELSE last_error
    /\ polls' = 0
    /\ pc' = "backoff"
    /\ EndSession
    /\ UNCHANGED <<mode, input, buildVars, returned, stdoutVars, running,
                   interrupted, attempts, result, reconnect_attempts,
                   current_uptime, upc>>

\* MatchErr that hands the error of the session to the caller of run().
MatchErr_Propagate ==
    /\ pc = "match" /\ IsErr(result)
    /\ connection_state' = 0
    /\ reconnect_attempts' = reconnect_attempts + 1
    /\ last_error' = IF mode = "transcode" THEN TRUE ELSE last_error
    /\ returned' = "err"
    /\ pc' = "done"
    /\ EndSession
    /\ UNCHANGED <<mode, input, buildVars, stdoutVars, running, interrupted,
                   attempts, polls, result, current_uptime, upc>>

\* Arm Err(e) of both supervisors: gauge 0, counter +1 (and record_error in
\* FFmpegMonitor::run), enter the wait.
MatchErr ==
    /\ pc = "match" /\ IsErr(result)
    /\ connection_state' = 0
    /\ reconnect_attempts' = reconnect_attempts + 1
    /\ last_error' = IF mode = "transcode" THEN TRUE ELSE last_error
    /\ polls' = 0
    /\ pc' = "backoff"
    /\ EndSession
    /\ UNCHANGED <<mode, input, buildVars, returned, stdoutVars, running,
                   interrupted, attempts, result, current_uptime, upc>>

\* BackoffPoll that sleeps the increments without loading the flag.
BackoffPoll_NoLoad ==
    /\ pc = "backoff"
    /\ polls < RETRY_POLLS
    /\ polls' = polls + 1
    /\ result' = NoResult
    /\ UNCHANGED <<mode, input, buildVars, returned, stdoutVars, running,
                   interrupted, pc, attempts, sinkVars, current_uptime, child,
                   wpc, staleVars, upc, chanVars>>

\* for _ in 0..100 { if !running.load() { return Ok(()); } sleep(DELAY/100) }
\* One step is one iteration: the load, then the sleep of that increment.
\* The matched value is dead once the arm has logged it and updated the
\* sink; it is forgotten here.
BackoffPoll ==
    /\ pc = "backoff"
    /\ polls < RETRY_POLLS
    /\ IF running
         THEN /\ polls' = polls + 1
              /\ pc' = "backoff"
         ELSE /\ pc' = "done"
              /\ UNCHANGED polls
    /\ result' = NoResult
    /\ returned' = IF running THEN returned ELSE "ok"
    /\ UNCHANGED <<mode, input, buildVars, stdoutVars, running, interrupted,
                   attempts, sinkVars, current_uptime, child, wpc, staleVars,
                   upc, chanVars>>

\* The for loop has run all its iterations: back to the while condition.
BackoffDone ==
    /\ pc = "backoff"
    /\ polls = RETRY_POLLS
    /\ pc' = "loop"
    /\ UNCHANGED <<mode, input, buildVars, returned, stdoutVars, running,
                   interrupted, attempts, polls, result, sinkVars,
                   current_uptime, child, wpc, staleVars, upc, chanVars>>

Supervisor ==
    \/ RunLoop \/ RunConnect \/ SpawnOk \/ SpawnFail
    \/ TryRecv \/ TryWait \/ TryWaitErr \/ StopCheck
    \/ ProbeMatchOk \/ FFmpegMatchOk \/ MatchErr
    \/ BackoffPoll \/ BackoffDone

\* -------------------------------------------------------- stream workers

\* reader.lines() yields Err (I/O failure, invalid UTF-8): process_stdout /
\* process_stderr returns Err and the closure goes on to send it.
WorkerReadError(w) ==
    /\ wpc[w] = "read"
    /\ wpc' = [wpc EXCEPT ![w] = "send"]
    /\ UNCHANGED <<mode, input, buildVars, returned, stdoutVars, running,
                   interrupted, supVars, sinkVars, current_uptime, child,
                   staleVars, upc, chanVars>>

\* reader.lines() ends (the child is gone, its pipes are closed): Ok(()),
\* the thread finishes without touching the channel or the flag.
WorkerEof(w) ==
    /\ wpc[w] = "read"
    /\ child \in ExitStates \cup {"killed"}
    /\ wpc' = [wpc EXCEPT ![w] = "exit"]
    /\ UNCHANGED <<mode, input, buildVars, returned, stdoutVars, running,
                   interrupted, supVars, sinkVars, current_uptime, child,
                   staleVars, upc, chanVars>>

\* WorkerSend on a channel of capacity one (sync_channel(1)): the send
\* waits while an error is queued and the receiver exists.
WorkerSend_Bounded(w) ==
    /\ wpc[w] = "send"
    /\ InPipeline => Len(error_rx) - taken < 1
    /\ error_rx' = IF InPipeline THEN Append(error_rx, w) ELSE error_rx
    /\ wpc' = [wpc EXCEPT ![w] = "store"]
    /\ UNCHANGED <<mode, input, buildVars, returned, stdoutVars, running,
                   interrupted, supVars, sinkVars, current_uptime, child,
                   staleVars, upc, taken>>

\* let _ = error_tx_clone.send(e): the channel is unbounded, send never
\* blocks; with the receiver dropped it returns Err, which is ignored.
WorkerSend(w) ==
    /\ wpc[w] = "send"
    /\ error_rx' = IF InPipeline THEN Append(error_rx, w) ELSE error_rx
    /\ wpc' = [wpc EXCEPT ![w] = "store"]
    /\ UNCHANGED <<mode, input, buildVars, returned, stdoutVars, running,
                   interrupted, supVars, sinkVars, current_uptime, child,
                   staleVars, upc, taken>>

\* running.store(false, Ordering::SeqCst)
WorkerStore(w) ==
    /\ wpc[w] = "store"
    /\ running' = FALSE
    /\ wpc' = [wpc EXCEPT ![w] = "exit"]
    /\ UNCHANGED <<mode, input, buildVars, returned, stdoutVars, interrupted,
                   supVars, sinkVars, current_uptime, child, staleVars, upc,
                   chanVars>>

\* The same steps taken by a worker of a session already handled.  Its
\* stream ends when the child closes it or dies; its send finds the
\* receiver gone, returns Err, which is ignored, and the store follows.
StaleReadError ==
    /\ stale_read > 0
    /\ stale_read' = stale_read - 1
    /\ stale_store' = stale_store + 1
    /\ UNCHANGED <<mode, input, buildVars, returned, stdoutVars, running,
                   interrupted, supVars, sinkVars, current_uptime, child,
                   leaked, wpc, upc, chanVars>>

StaleEof ==
    /\ stale_read > 0
    /\ stale_read' = stale_read - 1
    /\ UNCHANGED <<mode, input, buildVars, returned, stdoutVars, running,
                   interrupted, supVars, sinkVars, current_uptime, child,
                   leaked, wpc, stale_store, upc, chanVars>>

StaleStore ==
    /\ stale_store > 0
    /\ running' = FALSE
    /\ stale_store' = stale_store - 1
    /\ UNCHANGED <<mode, input, buildVars, returned, stdoutVars, interrupted,
                   supVars, sinkVars, current_uptime, child, leaked, wpc,
                   stale_read, upc, chanVars>>

\* ---------------------------------------- stdout worker: the line handlers
\* process_stdout of FFprobeMonitor splits a line at ',' and hands the
\* fields to process_packet_line or process_frame_line.  A line is the
\* sequence of its fields; parts[i] of the code is Field(parts, i).
Field(parts, i) == parts[i + 1]

\* The label (stream_id, media_type) of a record: parts[2], parts[1].
LabelOf(parts) == <<Field(parts, 2), Field(parts, 1)>>

\* Trim that never removes anything.
Trim_None(ft) == ft

\* while frame_times.len() > 100 { frame_times.remove(0); }
RECURSIVE Trim(_)
Trim(ft) == IF Len(ft) > FRAME_WINDOW THEN Trim(Tail(ft)) ELSE ft

\* stream_frames: for (key, time) in frame_times.iter() {
\*     stream_frames.entry(key.clone()).or_default().push(*time) }
\* The times pushed under one key, in the order of frame_times.
TimesOf(ft, key) ==
    LET entries == SelectSeq(ft, LAMBDA e : e[1] = key)
    IN [i \in 1..Len(entries) |-> entries[i][2]]

KeysOf(ft) == {ft[i][1] : i \in 1..Len(ft)}

\* let time_diff = times.last().unwrap() - times.first().unwrap();
\* let fps = times.len() as f64 / time_diff;      (frames per ms, n / d)
FpsOf(times) == [n |-> Len(times), d |-> times[Len(times)] - times[1]]

\* for (key, times) in stream_frames { if times.len() >= 2 { ...
\*     fps.with_label_values(&[type, stream_id, media_type]).set(fps) } }
FpsUpdate(ft, gauge) ==
    LET stream_frames == [key \in KeysOf(ft) |-> TimesOf(ft, key)]
        updated == {key \in KeysOf(ft) : Len(stream_frames[key]) >= 2}
    IN [l \in Labels |->
           IF \E key \in updated : SplitOnce(key) = l
             THEN FpsOf(stream_frames[CHOOSE key \in updated :
                                         SplitOnce(key) = l])
             ELSE gauge[l]]

\* Elapsed that holds at every frame: an update with every record.
Elapsed_Always(t) == t >= last_fps_update

\* last_fps_update.elapsed().as_secs() >= 1, the clock read at time t
Elapsed(t) == (t - last_fps_update) \div 1000 >= 1

\* The pts of the next frame of the source: the first frame has pts 0 and
\* arrives as the worker starts.
NextPts == IF seen = <<>> THEN 0 ELSE now + FrameInterval

\* Frame records with no parseable pts that have been counted.
BadFrames ==
    frame_counter[MainLabel] + frame_counter[OtherLabel] - Len(seen)

\* The frames of the other stream come before the first frame of the main
\* stream or once the window is full, at most MaxOther of them.
OtherMayArrive ==
    /\ frame_counter[OtherLabel] < MaxOther
    /\ frame_counter[MainLabel] = 0 \/ Len(frame_times) = FRAME_WINDOW

\* Frame lines the source may deliver at time t: a record of the main or of
\* the other stream whose pts is t (a live source delivers a frame at its
\* presentation time) or is not a number, and a line cut short after five
\* fields.
FrameLines(t) ==
    {<<"frame", l[2], l[1], NotNum, NotNum, p>> :
        l \in {MainLabel, OtherLabel}, p \in {Num(t), NotNum}}
    \cup {<<"frame", MainLabel[2], MainLabel[1], NotNum, NotNum>>}

\* process_frame_line
process_frame_line(parts) ==
    /\ wpc["stdout"] = "read"
    /\ Field(parts, 0) = "frame"
    /\ Len(seen) < MaxFrames
    /\ LabelOf(parts) # MainLabel => OtherMayArrive
    /\ IF Len(parts) >= 6
         THEN /\ frame_counter' =
                   [frame_counter EXCEPT ![LabelOf(parts)] = @ + 1]
              /\ IF ParseF64(Field(parts, 5)).ok
                   THEN LET pts_time == ParseF64(Field(parts, 5)).val
                            key == Key(Field(parts, 2), Field(parts, 1))
                            pushed == Append(frame_times, <<key, pts_time>>)
                        IN /\ now' = pts_time
                           /\ frame_times' = Trim(pushed)
                           /\ seen' = Append(seen, <<key, pts_time>>)
                           /\ IF Elapsed(pts_time)
                                THEN /\ fps' = FpsUpdate(Trim(pushed), fps)
                                     /\ last_fps_update' = pts_time
                                ELSE UNCHANGED <<fps, last_fps_update>>
                   ELSE /\ BadFrames < MaxBadFrames
                        /\ UNCHANGED <<now, frame_times, seen, fps,
                                       last_fps_update>>
         ELSE UNCHANGED <<now, frame_times, seen, fps, last_fps_update,
                          frame_counter>>
    /\ UNCHANGED <<mode, input, buildVars, returned, running, interrupted,
                   supVars, sinkVars, current_uptime, child, wpc, staleVars,
                   upc, chanVars, session_seen, bitrate, packet_corrupt>>

\* Packet lines of the source: twelve fields with the size at parts[9] and
\* the flags at parts[11], and a line cut short after eleven fields.
PacketSizes == {Num(188), Num(1316), NotNum}
PacketFlags == {<<"K", "_">>, <<"K", "C">>, <<"_", "C">>}
PacketLines ==
    {<<"packet", l[2], l[1], NotNum, NotNum, NotNum, NotNum, NotNum,
       NotNum, size, NotNum, flags>> :
        l \in Labels, size \in PacketSizes, flags \in PacketFlags}
    \cup {<<"packet", l[2], l[1], NotNum, NotNum, NotNum, NotNum, NotNum,
            NotNum, Num(188), NotNum>> : l \in Labels}

\* CorruptAfter that counts every packet record, whatever its flags.
CorruptAfter_Any(parts, counter) ==
    IF Len(parts) >= 12
      THEN [counter EXCEPT ![LabelOf(parts)] = @ + 1]
      ELSE counter

\* process_packet_line, the bitrate gauge after the record:
\* if let Ok(size) = parts[9].parse::<f64>() { set(size * 8.0 / 1000.0) }
BitrateAfter(parts, gauge) ==
    IF Len(parts) >= 12 /\ ParseF64(Field(parts, 9)).ok
      THEN [gauge EXCEPT ![LabelOf(parts)] =
              [n |-> ParseF64(Field(parts, 9)).val * 8, d |-> 1000]]
      ELSE gauge

\* process_packet_line, the corrupt-packet counter after the record:
\* if parts.len() >= 11 && parts[11].contains('C') { inc() }
CorruptAfter(parts, counter) ==
    IF Len(parts) >= 12 /\ Len(parts) >= 11
          /\ Contains(Field(parts, 11), "C")
      THEN [counter EXCEPT ![LabelOf(parts)] = @ + 1]
      ELSE counter

\* process_packet_line
process_packet_line(parts) ==
    /\ wpc["stdout"] = "read"
    /\ Field(parts, 0) = "packet"
    /\ \A l \in Labels : CorruptAfter(parts, packet_corrupt)[l] <= MaxCorrupt
    /\ bitrate' = BitrateAfter(parts, bitrate)
    /\ packet_corrupt' = CorruptAfter(parts, packet_corrupt)
    /\ UNCHANGED <<mode, input, buildVars, returned, running, interrupted,
                   supVars, sinkVars, current_uptime, child, wpc, staleVars,
                   upc, chanVars, now, last_fps_update, frame_times, seen,
                   session_seen, fps, frame_counter>>

\* --------------------------------------------------------- uptime worker

\* UptimeTick that never looks at the flag.
UptimeTick_Deaf(s) ==
    /\ upc[s] = "run"
    /\ current_uptime' = s
    /\ UNCHANGED <<mode, input, buildVars, returned, stdoutVars, running,
                   interrupted, supVars, sinkVars, child, wpc, staleVars, upc,
                   chanVars>>

\* while running_clone.load() { current_uptime.set(elapsed); sleep(1s) }
UptimeTick(s) ==
    /\ upc[s] = "run"
    /\ IF running
         THEN /\ current_uptime' = s
              /\ UNCHANGED upc
         ELSE /\ upc' = [upc EXCEPT ![s] = "exit"]
              /\ UNCHANGED current_uptime
    /\ UNCHANGED <<mode, input, buildVars, returned, stdoutVars, running,
                   interrupted, supVars, sinkVars, child, wpc, staleVars,
                   chanVars>>

\* ----------------------------------------------------------- environment

\* The subprocess ends by itself with some status.
ChildExit(st) ==
    /\ child = "alive"
    /\ child' = st
    /\ UNCHANGED <<mode, input, buildVars, returned, stdoutVars, running,
                   interrupted, supVars, sinkVars, current_uptime, wpc,
                   staleVars, upc, chanVars>>

\* A subprocess whose handle has been dropped ends; nobody observes it.
LeakedExit ==
    /\ leaked > 0
    /\ leaked' = leaked - 1
    /\ UNCHANGED <<mode, input, buildVars, returned, stdoutVars, running,
                   interrupted, supVars, sinkVars, current_uptime, child, wpc,
                   stale_read, stale_store, upc, chanVars>>

\* ctrlc handler / holder of get_running_handle(): running.store(false)
Interrupt ==
    /\ ~interrupted
    /\ pc \notin {"classify", "failed", "done"}
    /\ running' = FALSE
    /\ interrupted' = TRUE
    /\ UNCHANGED <<mode, input, buildVars, returned, stdoutVars, supVars,
                   sinkVars, current_uptime, child, wpc, staleVars, upc,
                   chanVars>>

\* Steps of every thread but the uptime workers.
SupervisionNext ==
    \/ Supervisor
    \/ \E w \in Workers : WorkerReadError(w)
    \/ \E w \in Workers : WorkerEof(w)
    \/ \E w \in Workers : WorkerSend(w)
    \/ \E w \in Workers : WorkerStore(w)
    \/ StaleReadError \/ StaleEof \/ StaleStore
    \/ \E st \in ExitStates : ChildExit(st)
    \/ LeakedExit
    \/ Interrupt

Next ==
    \/ SupervisionNext
    \/ \E s \in Sessions : UptimeTick(s)

\* The whole program.
Spec == Init /\ [][Next]_vars

\* The program with the uptime workers left where SpawnOk started them.  An
\* uptime worker only loads `running` and sets current_uptime (UptimeTick):
\* it writes nothing that the supervisor, the stream workers or the child
\* read, so the properties of supervision and of the pipeline are settled
\* here.
SupervisionSpec == Init /\ [][SupervisionNext]_vars

\* The program from the start of main: the locator is classified first.
StartupInit ==
    /\ Fresh
    /\ pc = "classify"
    /\ \E c \in StartupLocators : input = c[1] /\ file_exists = c[2]

StartupNext ==
    \/ Classify
    \/ SupervisionNext

StartupSpec == StartupInit /\ [][StartupNext]_vars

\* A session of FFprobeMonitor just started (the state SpawnOk leaves in
\* the first attempt): the child runs and the stdout worker is in
\* process_stdout with its fresh frame_times and last_fps_update.
SessionStarted ==
    /\ mode = "probe"
    /\ input = DefaultInput
    /\ file_exists = FALSE
    /\ running = TRUE
    /\ interrupted = FALSE
    /\ pc = "recv"
    /\ attempts = 1
    /\ polls = 0
    /\ connection_state = 1
    /\ reconnect_attempts = 0
    /\ last_error = FALSE
    /\ current_uptime = 0
    /\ child = "alive"
    /\ leaked = 0
    /\ wpc = [w \in Workers |-> "read"]
    /\ stale_read = 0
    /\ stale_store = 0
    /\ upc = [s \in Sessions |-> "none"]
    /\ error_rx = <<>>
    /\ taken = 0
    /\ result = NoResult
    /\ returned = "none"
    /\ built = <<>>
    /\ now = 0
    /\ last_fps_update = 0
    /\ frame_times = <<>>
    /\ seen = <<>>
    /\ session_seen = 0
    /\ fps = [l \in Labels |-> Unset]
    /\ frame_counter = [l \in Labels |-> 0]
    /\ bitrate = [l \in Labels |-> Unset]
    /\ packet_corrupt = [l \in Labels |-> 0]

\* The stdout worker reading frame records, everything else at rest.
FrameNext ==
    \E parts \in FrameLines(NextPts) : process_frame_line(parts)

FrameSpec == SessionStarted /\ [][FrameNext]_vars

\* The stdout worker reading packet records, everything else at rest.
PacketNext ==
    \E parts \in PacketLines : process_packet_line(parts)

PacketSpec == SessionStarted /\ [][PacketNext]_vars

\* FFprobeMonitor from its first session on, with the stdout worker of the
\* current session reading frame records beside the supervisor: the child
\* ends with some status, the result is handled, and after the retry delay
\* the next session is spawned.  No stream fails and nobody interrupts.
RespawnNext ==
    \/ RunLoop \/ RunConnect \/ SpawnOk
    \/ TryRecv \/ TryWait \/ StopCheck
    \/ ProbeMatchOk \/ MatchErr
    \/ BackoffPoll \/ BackoffDone
    \/ \E st \in ExitStates : ChildExit(st)
    \/ (Len(seen) < MaxRespawnFrames /\ FrameNext)

RespawnSpec == SessionStarted /\ [][RespawnNext]_vars

TypeOK ==
    /\ mode \in Modes
    /\ running \in BOOLEAN
    /\ interrupted \in BOOLEAN
    /\ pc \in {"classify", "failed", "loop", "connect", "spawn", "recv",
               "try_wait", "stop_check", "match", "backoff", "done"}
    /\ input \in Locators
    /\ file_exists \in BOOLEAN
    /\ returned \in {"none", "ok"}
    /\ attempts \in 0..MaxAttempts
    /\ polls \in 0..RETRY_POLLS
    /\ connection_state \in {0, 1}
    /\ reconnect_attempts \in 0..MaxAttempts
    /\ current_uptime \in 0..MaxAttempts
    /\ taken \in 0..1
    /\ Len(error_rx) <= 2
    /\ stale_read + stale_store <= 2 * MaxAttempts
    /\ leaked \in 0..MaxAttempts
    /\ child \in {"none", "alive", "killed"} \cup ExitStates

\* ============================================================== claims

\* C1: when a stream worker has reported a read error and no external stop
\* request has been made, the supervisor waits in Backoff and goes on to
\* spawn again; it does not return from run() because of that failure.
C1_WorkerFailureNeverStops ==
    [][(pc = "backoff" /\ result.kind = "worker" /\ ~interrupted') =>
            pc' # "done"]_vars

\* C2: a session ended by a non-zero exit status is in Backoff only with
\* the connected gauge at 0 and the counter incremented exactly once for
\* it: the counter equals the number of sessions ended so far.
C2_ExitErrorCountedOnce ==
    (pc = "backoff" /\ result.kind = "exit") =>
        /\ connection_state = 0
        /\ reconnect_attempts = attempts
        /\ polls = 0

C2_Witness ==
    /\ pc = "backoff"
    /\ result = ExitErr(1)
    /\ attempts = 2
    /\ reconnect_attempts = 2
    /\ connection_state = 0

\* C3: every spawn but the first comes after a complete wait: all
\* RETRY_POLLS increments have been counted, and an increment is counted
\* only by a poll of the wait that found the stop flag unset.
C3_SpawnOnlyAfterFullDelay ==
    /\ [](((pc \in {"connect", "spawn"} /\ attempts > 1)
            \/ (pc = "loop" /\ attempts > 0)) => polls = RETRY_POLLS)
    /\ [][polls' # polls =>
            \/ (pc = "backoff" /\ running /\ polls' = polls + 1)
            \/ (pc = "match" /\ polls' = 0)]_vars

C3_Witness ==
    /\ pc = "recv"
    /\ attempts = 2
    /\ polls = RETRY_POLLS
    /\ child = "alive"

\* C4: with the stop flag set during the wait, the supervisor counts no
\* further increment, spawns nothing, and its next step returns from run()
\* (directly, or through the while condition if the flag was set during the
\* last increment).
C4_StopEndsBackoff ==
    [][(~running /\ pc \in {"backoff", "loop"}) =>
            /\ polls' = polls
            /\ attempts' = attempts
            /\ \/ pc' \in {pc, "done"}
               \/ (pc = "backoff" /\ polls = RETRY_POLLS /\ pc' = "loop")]_vars

C4_Witness ==
    /\ pc = "done"
    /\ interrupted
    /\ polls = 50
    /\ attempts = 1

\* C5: with the stop flag set through the external handle while the
\* supervisor polls a subprocess, the session does not return with the
\* subprocess still alive: the coordinating loop has killed it (or it had
\* ended by itself).
C5_StopKillsChild ==
    [][(interrupted /\ InPipeline /\ pc' = "match") => child' # "alive"]_vars

\* C6: in both supervisors a session that ends with exit status zero while
\* no stop has been requested sets the gauge to 0, increments the counter
\* and enters Backoff; the supervisor does not return.
C6_CleanExitRetries ==
    [][(pc = "match" /\ result = OkExit /\ running /\ pc' # pc) =>
            /\ connection_state' = 0
            /\ reconnect_attempts' = reconnect_attempts + 1
            /\ pc' = "backoff"]_vars

\* C7: a session in which a worker has sent an error returns an error,
\* never success.
C7_WorkerErrorSurfaces ==
    (pc = "match" /\ Len(error_rx) > 0) => IsErr(result)

\* C8: at most one error of the channel is consumed per session and it is
\* the first one sent; a worker about to send can always send, whatever
\* the channel holds and whether or not the receiver still exists.
C8_FirstErrorWins ==
    /\ taken <= 1
    /\ (pc = "match" /\ result.kind = "worker") =>
           (taken = 1 /\ result.who = error_rx[1])
    /\ (pc = "match" /\ result.kind # "worker") => taken = 0
    /\ \A w \in Workers : wpc[w] = "send" => ENABLED WorkerSend(w)

C8_Witness ==
    /\ pc = "match"
    /\ result.kind = "worker"
    /\ Len(error_rx) = 2
    /\ result.who = error_rx[1]
    /\ \E w \in Workers : wpc[w] = "exit"

\* C9: with no worker error sent and the stop flag unset, the session's
\* result is the exit status: zero gives success, anything else the
\* process-failure error carrying the exit code.
C9_ResultIsExitStatus ==
    (pc = "match" /\ Len(error_rx) = 0 /\ running
        /\ result.kind \notin {"spawn", "wait"}) =>
        /\ child \in ExitStates
        /\ result = IF child = "exited0" THEN OkExit
                                         ELSE ExitErr(ExitCode(child))

C9_Witness ==
    /\ pc = "match"
    /\ Len(error_rx) = 0
    /\ running
    /\ child = "signaled"
    /\ result = ExitErr(-1)

\* C10: whenever the session returns because of a worker error, a failed
\* status query or a stop request, the subprocess is no longer alive.
C10_KilledBeforeReturn ==
    (pc = "match" /\ result.kind \in {"worker", "wait", "stopped"}) =>
        child # "alive"

\* C11: the stop flag starts as running and is monotonic: once any thread
\* has stored false, no step of any thread sets it back to true.
C11_StopFlagMonotonic ==
    /\ running = TRUE
    /\ [][~running => ~running']_vars

C11_Witness ==
    /\ ~running
    /\ ~interrupted
    /\ pc = "done"
    /\ \E s \in Sessions : upc[s] = "exit"

\* C12: a failed spawn returns Err to the match, which sets the gauge to 0,
\* increments the counter and starts the wait; while the stop flag is unset
\* neither the wait nor the while condition ends run(), and a complete wait
\* leads back to a new attempt.
C12_SpawnFailureRetried ==
    /\ [][(pc = "spawn" /\ pc' # pc) =>
            \/ pc' = "recv"
            \/ (pc' = "match" /\ result' = SpawnErr /\ child' = "none")]_vars
    /\ [][(pc = "match" /\ result = SpawnErr /\ pc' # pc) =>
            /\ pc' = "backoff"
            /\ polls' = 0
            /\ connection_state' = 0
            /\ reconnect_attempts' = reconnect_attempts + 1]_vars
    /\ [][(running /\ pc \in {"backoff", "loop"} /\ pc' # pc) =>
            \/ (pc = "backoff" /\ polls = RETRY_POLLS /\ pc' = "loop")
            \/ (pc = "loop" /\ pc' = "connect")]_vars

C12_Witness ==
    /\ mode = "transcode"
    /\ upc[1] = "none"
    /\ attempts = 2
    /\ pc = "backoff"
    /\ result = SpawnErr
    /\ reconnect_attempts = 2
    /\ connection_state = 0
    /\ running

\* C13: with a locator that does not classify, the error is returned before
\* anything else happens: the supervisor loop is never entered, nothing is
\* spawned, no wait is started and the sink is not touched.
C13_ClassificationFailureIsFatal ==
    from_input(input, file_exists) = "error" =>
        /\ pc \in {"classify", "failed"}
        /\ attempts = 0
        /\ polls = 0
        /\ child = "none"
        /\ leaked = 0
        /\ connection_state = 0
        /\ reconnect_attempts = 0
        /\ wpc = NoWorkers
        /\ running

C13_Witness ==
    /\ pc = "failed"
    /\ input.scheme = "ftp"
    /\ attempts = 0
    /\ child = "none"

\* C14: the gauge is 1 whenever the supervisor is about to spawn, stays 1
\* while the session runs and until its result is matched, and is 0 once a
\* failed spawn has been handled.
C14_ConnectedBeforeSpawn ==
    /\ pc = "spawn" => connection_state = 1
    /\ InPipeline => connection_state = 1
    /\ (pc = "match" /\ result = SpawnErr) => connection_state = 1
    /\ (pc = "backoff" /\ result = SpawnErr) => connection_state = 0

C14_Witness ==
    /\ pc = "spawn"
    /\ attempts = 2
    /\ connection_state = 1
    /\ reconnect_attempts = 1
    /\ leaked = 0

\* C15: when the session returns success after the subprocess exited with
\* status zero, both stream workers have read their stream to its end.
C15_NoOutputLost ==
    (pc = "match" /\ result = OkExit) =>
        \A w \in Workers : wpc[w] = "exit"

LastN(s, k) == SubSeq(s, Len(s) - k + 1, Len(s))

Min(a, b) == IF a <= b THEN a ELSE b

\* C17: after any number of frame records no label has more than
\* FRAME_WINDOW timestamps retained, and what is retained is what was
\* pushed last, in order: an eviction removes the oldest entry.
C17_WindowBoundedFifo ==
    /\ \A l \in Labels :
           Len(TimesOf(frame_times, Key(l[1], l[2]))) <= FRAME_WINDOW
    /\ Len(frame_times) = Min(Len(seen), FRAME_WINDOW)
    /\ frame_times = LastN(seen, Len(frame_times))

C17_Witness ==
    /\ Len(seen) = FRAME_WINDOW + 1
    /\ Len(TimesOf(frame_times, Key(MainLabel[1], MainLabel[2]))) = FRAME_WINDOW
    /\ frame_times[1] = seen[2]

\* C18: for each label the timestamps retained are that label's most
\* recent min(n, FRAME_WINDOW), n being the number of its frame records
\* pushed so far: records of another label do not evict them.
C18_WindowPerLabel ==
    \A l \in Labels :
        LET all == TimesOf(seen, Key(l[1], l[2]))
        IN TimesOf(frame_times, Key(l[1], l[2])) =
               LastN(all, Min(Len(all), FRAME_WINDOW))

\* C19: in the state an FPS update leaves, the gauge of a label with k >= 2
\* samples is (k - 1) / (newest - oldest).
C19_FpsFormula ==
    \A l \in Labels :
        LET times == TimesOf(frame_times, Key(l[1], l[2]))
        IN (last_fps_update = now /\ Len(times) >= 2) =>
               fps[l].n * (times[Len(times)] - times[1]) =
                   (Len(times) - 1) * fps[l].d

\* C20: a packet record of twelve fields with a size that parses and the
\* corrupt marker in its flags adds exactly one to the corrupt-packet
\* counter of its label, leaves the other labels alone, and sets the bitrate
\* gauge of its label to size * 8 / 1000; a record without the marker
\* leaves the counter as it is.
C20_PacketRecord ==
    \A parts \in PacketLines :
        Len(parts) >= 12 =>
            LET l == LabelOf(parts)
                size == ParseF64(Field(parts, 9))
                marked == Contains(Field(parts, 11), "C")
            IN /\ (size.ok /\ marked) =>
                     /\ CorruptAfter(parts, packet_corrupt) =
                            [packet_corrupt EXCEPT ![l] = @ + 1]
                     /\ BitrateAfter(parts, bitrate)[l].n * 1000 =
                            size.val * 8 * BitrateAfter(parts, bitrate)[l].d
                     /\ BitrateAfter(parts, bitrate)[l].d # 0
                     /\ \A k \in Labels \ {l} :
                            BitrateAfter(parts, bitrate)[k] = bitrate[k]
               /\ ~marked => CorruptAfter(parts, packet_corrupt) = packet_corrupt

C20_Witness ==
    /\ packet_corrupt[MainLabel] = 1
    /\ bitrate[MainLabel] = [n |-> 1504, d |-> 1000]
    /\ \A l \in Labels \ {MainLabel} :
           packet_corrupt[l] = 0 /\ bitrate[l] = Unset


\* C21: classification is total and follows the table: srt, rtmp, rtsp and
\* udp URLs map to their kind; an http/https URL maps to MPEG-TS when the
\* path of the URL ends in .ts and to HLS otherwise; any other scheme is an
\* error; a text that is no URL maps by its extension when the file exists
\* (.ts MPEG-TS, .m3u8/.m3u HLS, another extension generic file, none an
\* error); everything else is an error.
C21_ClassifyTable ==
    \A i \in DOMAIN built :
        built[i].type =
            IF input.scheme \in {"srt", "rtmp", "rtsp", "udp"}
              THEN input.scheme
            ELSE IF input.scheme \in {"http", "https"}
              THEN IF input.suffix = ".ts" THEN "mpegts" ELSE "hls"
            ELSE IF input.scheme # "none" THEN "error"
            ELSE IF ~built[i].exists THEN "error"
            ELSE IF input.suffix = ".ts" THEN "mpegts"
            ELSE IF input.suffix \in {".m3u8", ".m3u"} THEN "hls"
            ELSE IF input.suffix = "" THEN "error"
            ELSE "file"

\* C22: with reporting requested, the report flag is the first argument,
\* before the packet, frame and format flags, for every stream type.
C22_ReportFirst ==
    \A i \in DOMAIN built :
        (built[i].report /\ built[i].type # "error") =>
            built[i].args[1] = <<"-report">>

\* C23: for every stream type and all parameters, the last argument is the
\* locator, and the packet flag, the frame flag and the format flag with
\* its value are in the list.
C23_InputLast ==
    \A i \in DOMAIN built :
        built[i].type # "error" =>
            LET args == built[i].args
            IN  /\ args[Len(args)] = Text(input)
                /\ args[Len(args) - 1] = <<"-i">>
                /\ \E k \in DOMAIN args : args[k] = <<"-show_packets">>
                /\ \E k \in DOMAIN args : args[k] = <<"-show_frames">>
                /\ \E k \in 1..(Len(args) - 1) :
                       args[k] = <<"-of">> /\ args[k + 1] = <<"csv">>

C23_Witness ==
    /\ Len(built) = 2
    /\ built[1].type = "rtsp" /\ built[1].report /\ Len(built[1].args) = 13
    /\ built[2].type = "rtsp" /\ ~built[2].report
    /\ built[2].probe_size = 32
    /\ built[2].args[Len(built[2].args)] = <<"rtsp", "://x/y", "?k=v">>

\* C24: two runs on the same locator with the same parameters return the
\* same stream type and the same arguments, whatever else happened in the
\* environment between them.
C24_Deterministic ==
    \A i, j \in DOMAIN built :
        (/\ built[i].probe_size = built[j].probe_size
         /\ built[i].analyze_duration = built[j].analyze_duration
         /\ built[i].report = built[j].report) =>
            /\ built[i].type = built[j].type
            /\ built[i].args = built[j].args

\* C24 as it holds: two runs on the same locator with the same parameters
\* return the same stream type and the same arguments whenever path.exists()
\* gave both the same answer, and for a URL whatever it answered.
C24_DeterministicGivenFileSystem ==
    \A i, j \in DOMAIN built :
        (/\ built[i].probe_size = built[j].probe_size
         /\ built[i].analyze_duration = built[j].analyze_duration
         /\ built[i].report = built[j].report
         /\ (input.scheme # "none" \/ built[i].exists = built[j].exists)) =>
            /\ built[i].type = built[j].type
            /\ built[i].args = built[j].args

C24_Witness ==
    /\ Len(built) = 2
    /\ input.scheme = "https"
    /\ input.suffix = ".ts"
    /\ built[1].exists /\ ~built[2].exists
    /\ built[1].report /\ built[2].report
    /\ built[1].probe_size = built[2].probe_size
    /\ built[1].analyze_duration = built[2].analyze_duration
    /\ built[2].type = "mpegts"
    /\ built[1].args = built[2].args

\* The (key, pts) pairs pushed by the stdout worker of the current session.
SeenInSession == SubSeq(seen, session_seen + 1, Len(seen))

C26_FpsRoundOncePerSecond ==
    /\ [][(fps' # fps \/ last_fps_update' # last_fps_update) =>
            /\ Len(seen') = Len(seen) + 1
            /\ (now' - last_fps_update) \div 1000 >= 1
            /\ last_fps_update' = now'
            /\ \A l \in Labels :
                   Len(TimesOf(frame_times', Key(l[1], l[2]))) < 2 =>
                       fps'[l] = fps[l]]_vars
    /\ [][(Len(seen') = Len(seen) + 1
             /\ (now' - last_fps_update) \div 1000 >= 1) =>
            last_fps_update' = now']_vars

C26_Witness ==
    /\ now > 0
    /\ last_fps_update = now
    /\ Len(TimesOf(frame_times, Key(OtherLabel[1], OtherLabel[2]))) = 1
    /\ fps[OtherLabel] = Unset
    /\ fps[MainLabel].n = 2

\* C27: each iteration of the polling loop looks at the error channel
\* first, then at the exit status, then at the stop flag.  With an error
\* queued the worker error is returned, whatever the child has done; with
\* no error queued and the child exited, its status decides (an error with
\* the exit code unless it is success), whatever the stop flag says; only
\* with the child still running is the stop flag looked at, and a clean
\* stop returned when it is unset.
C27_CheckOrder ==
    /\ [][(pc = "recv" /\ pc' # pc) =>
            IF taken < Len(error_rx)
              THEN pc' = "match" /\ result' = WorkerErr(error_rx[taken + 1])
              ELSE pc' = "try_wait" /\ result' = result]_vars
    /\ [][(pc = "try_wait" /\ pc' # pc /\ result'.kind # "wait") =>
            IF child = "alive"
              THEN pc' = "stop_check" /\ result' = result
              ELSE /\ pc' = "match"
                   /\ result' = IF Success(child)
                                  THEN OkExit
                                  ELSE ExitErr(ExitCode(child))]_vars
    /\ [][(pc = "stop_check" /\ pc' # pc) =>
            IF running
              THEN pc' = "recv" /\ result' = result
              ELSE pc' = "match" /\ result' = OkStop]_vars
    /\ [][(result' = OkStop /\ result # OkStop) => pc = "stop_check"]_vars

C27_Witness ==
    /\ pc = "match"
    /\ result = ExitErr(1)
    /\ child = "exited1"
    /\ ~running
    /\ interrupted
    /\ error_rx = <<>>

\* C28: at most one subprocess is alive at any time: while the child of the
\* current session runs, no child of an earlier session is still alive.
C28_OneChildAlive ==
    child = "alive" => leaked = 0

\* C29: in transcode mode at most one uptime worker is alive at any time,
\* so the worker of a session that has ended has stopped before the worker
\* of the next session starts, and the uptime gauge holds the elapsed time
\* of no session but the current one.
C29_OneUptimeWorker ==
    /\ Cardinality({s \in Sessions : upc[s] = "run"}) <= 1
    /\ current_uptime \in {0, attempts}

\* C30: in the retry delay, and once run() has returned after at least one
\* attempt, the connected gauge is 0; the gauge is 1 only from the start of
\* an attempt until the result of its session has been matched.
C30_DisconnectedOutsideSession ==
    /\ pc = "backoff" => connection_state = 0
    /\ (pc = "done" /\ attempts >= 1) => connection_state = 0
    /\ connection_state = 1 =>
           (/\ pc \in {"spawn", "recv", "try_wait", "stop_check", "match"}
            /\ attempts >= 1)

C30_Witness ==
    /\ pc = "done"
    /\ mode = "transcode"
    /\ attempts = 2
    /\ reconnect_attempts = 1
    /\ result = OkExit
    /\ connection_state = 0

\* C31: run() of either supervisor returns Ok(()) whenever it returns, never
\* an error: the error of a session (failed spawn, worker error, non-zero
\* exit, failed status query) is matched inside run(), which sets the gauge
\* to 0, counts the reconnect and enters the retry delay without returning.
C31_RunReturnsOk ==
    /\ [](/\ returned \in {"none", "ok"}
          /\ pc = "done" <=> returned = "ok")
    /\ [][(pc = "match" /\ IsErr(result) /\ pc' # pc) =>
            /\ pc' = "backoff"
            /\ returned' = "none"
            /\ connection_state' = 0
            /\ reconnect_attempts' = reconnect_attempts + 1]_vars

C31_Witness ==
    /\ pc = "done"
    /\ returned = "ok"
    /\ reconnect_attempts = 2
    /\ attempts = 2
    /\ interrupted
    /\ last_error
====
